---- MODULE Spec2Model ----
(***************************************************************************)
(* The module lifecycle orchestrator of core/src/gateway_ll.c (primary     *)
(* construction path, #ifndef UWP_BINDING): Gateway_LL_Create,             *)
(* Gateway_LL_AddModule, Gateway_LL_RemoveModule, Gateway_LL_Destroy and   *)
(* the static helpers they call.  Every call the gateway makes to a        *)
(* collaborator (ModuleLoader, MessageBus, EventSystem, VECTOR, malloc) is *)
(* one step; a collaborator that can fail fails nondeterministically.      *)
(***************************************************************************)
EXTENDS Integers, Sequences, FiniteSets, TLC

\* Largest registry (and descriptor list) the model explores.
MaxModules == 2

\* The reference count MessageBus_Create hands back (the bus is a collaborator:
\* the gateway only ever moves the count relative to this value).
Baseline == 1
\* at most this many callbacks are registered with one gateway
MaxCallbacks == 1

NULL == 0
\* The one gateway handle the model builds.
GW == 1

\* MODULE_LIBRARY_HANDLE and MODULE_HANDLE values (opaque, non-NULL).
LibHandles == 1..MaxModules
ModHandles == 1..MaxModules
\* module_name values; NULL is allowed ("Possibly NULL module name").
Names == {NULL, 1}
\* module_path: NULL or some path.
Paths == {NULL, 1}

\* GATEWAY_PROPERTIES_ENTRY (module_configuration is opaque and only passed on).
Descriptors == [module_name : Names, module_path : Paths]

VARIABLES
    gw,            \* the GATEWAY_HANDLE_DATA shell: "none" | "building" | "live" | "gone"
    bus,           \* gateway->bus: "none" | "live" | "destroyed"
    busDestroyed,  \* number of MessageBus_Destroy calls made
    refcount,      \* the bus reference count
    vec,           \* gateway->modules as a handle: "null" | "live" | "destroyed"
    modules,       \* contents of gateway->modules: sequence of MODULE_DATA
    event_system,  \* gateway->event_system: "null" | "live"
    events,        \* events delivered by EventSystem_ReportEvent, in order
    linked,        \* module handles linked on the bus
    loaded,        \* library handles currently loaded
    alive,         \* module instances created and not destroyed
    op,            \* public operation running (or last run): "none" | "create" | "add" | "remove" | "destroy"
    pc,            \* position inside the operation; "idle" when none is in progress
    arg,           \* the operation's argument: descriptor list, entry, or module handle
    idx,           \* Gateway_LL_Create: properties_index (number of entries read so far)
    entry,         \* gateway_addmodule_internal: the descriptor being added
    lib,           \* gateway_addmodule_internal: module_library_handle
    mh,            \* gateway_addmodule_internal: module_handle
    mres,          \* gateway_addmodule_internal: module_result
    rm,            \* gateway_removemodule_internal: index of module_data in the registry
    result,        \* value the last public operation returned (NULL for a void one)
    calls,         \* trace of the current (or last) public operation: the collaborator calls it
                   \* made and the returns of gateway_addmodule_internal, in order
    pre,           \* the state when the current (or last) public operation was called
    stale,         \* module handles the bus still lists because their last unlink failed
    made,          \* <<library, instance>>: the library whose Module_Create made each live instance
    list,          \* the vector Gateway_GetModuleList last returned (not yet destroyed by the caller)
    callbacks      \* <<event_type, callback>> registered with the event system, in order

vars == <<gw, bus, busDestroyed, refcount, vec, modules, event_system, events,
          linked, loaded, alive, op, pc, arg, idx, entry, lib, mh, mres, rm,
          result, calls, pre, stale, made, list, callbacks>>

\* One entry of the trace: the function called, the handle it was given or
\* gave back (NULL if none), and whether it succeeded.
Call(f, h, ok) == [f |-> f, h |-> h, ok |-> ok]
Log(f, h, ok) == calls' = Append(calls, Call(f, h, ok))

Snapshot == [modules |-> modules, refcount |-> refcount, linked |-> linked,
             loaded |-> loaded, alive |-> alive, events |-> events,
             busDestroyed |-> busDestroyed, callbacks |-> callbacks]

\* A public operation is entered: remember the state it was called in.  The
\* locals of the functions it calls start afresh (those of the previous call
\* went out of scope when it returned).
Enter(o, a) ==
    /\ op' = o
    /\ arg' = a
    /\ pre' = Snapshot
    /\ idx' = 0
    /\ lib' = NULL
    /\ mh' = NULL
    /\ mres' = NULL

NoEntry == [module_name |-> NULL, module_path |-> NULL]

\* no vector has been returned by Gateway_GetModuleList
NoList == [returned |-> FALSE, view |-> FALSE, names |-> <<>>]

Init ==
    /\ gw = "none"
    /\ bus = "none"
    /\ busDestroyed = 0
    /\ refcount = 0
    /\ vec = "null"
    /\ modules = <<>>
    /\ event_system = "null"
    /\ events = <<>>
    /\ linked = {}
    /\ loaded = {}
    /\ alive = {}
    /\ op = "none"
    /\ pc = "idle"
    /\ arg = <<>>
    /\ idx = 0
    /\ entry = NoEntry
    /\ lib = NULL
    /\ mh = NULL
    /\ mres = NULL
    /\ rm = 0
    /\ result = NULL
    /\ calls = <<>>
    /\ pre = [modules |-> <<>>, refcount |-> 0, linked |-> {}, loaded |-> {},
              alive |-> {}, events |-> <<>>, busDestroyed |-> 0]
    /\ stale = {}
    /\ made = {}
    /\ list = NoList
    /\ callbacks = <<>>

(***************************************************************************)
(* Collaborators, as the gateway uses them.                                *)
(***************************************************************************)

\* EventSystem_ReportEvent: delivers the event when the event system exists and
\* is a no-op on a NULL event system (comment at gateway_destroy_internal).
EventSystem_ReportEvent(es, ev) ==
    IF es = "live" THEN Append(events, ev) ELSE events

\* MessageBus_RemoveModule: a successful unlink removes the link; after a failed
\* one the module "will remain linked to the message bus".
MessageBus_RemoveModule(h, ok) ==
    IF ok THEN linked \ {h} ELSE linked

\* Variant of module_data_find: compares the record's library handle.
module_data_find_library(element, value) ==
    element.module_library_handle = value

\* static bool module_data_find(element, value)
module_data_find(element, value) ==
    element.module = value

\* VECTOR_find_if(modules, module_data_find, value): index of the first match, 0 if none
VECTOR_find_if(value) ==
    IF \E i \in 1..Len(modules) : module_data_find(modules[i], value)
    THEN CHOOSE i \in 1..Len(modules) :
            /\ module_data_find(modules[i], value)
            /\ \A j \in 1..(i - 1) : ~module_data_find(modules[j], value)
    ELSE 0

\* VECTOR_erase(modules, module_data, 1)
VECTOR_erase(s, i) ==
    [k \in 1..(Len(s) - 1) |-> IF k < i THEN s[k] ELSE s[k + 1]]

\* VECTOR_push_back(modules, &module_data, 1)
VECTOR_push_back(s, e) ==
    Append(s, e)

(***************************************************************************)
(* gateway_addmodule_internal                                              *)
(***************************************************************************)

\* return module_result: back in Gateway_LL_AddModule (which returns it) or in
\* the loop of Gateway_LL_Create
AddReturn(r, cs) ==
    /\ calls' = calls \o cs \o <<Call("gateway_addmodule_internal", r, r # NULL)>>
    /\ mres' = r
    /\ IF op = "add"
       THEN pc' = "idle" /\ result' = r
       ELSE pc' = "c_next" /\ UNCHANGED result

\* if (module_path != NULL) ModuleLoader_Load(module_path)
Add_Load ==
    /\ pc = "a_load"
    /\ IF entry.module_path = NULL
       THEN AddReturn(NULL, <<>>) /\ UNCHANGED <<lib, loaded>>
       ELSE \/ /\ AddReturn(NULL, <<Call("ModuleLoader_Load", NULL, FALSE)>>)
               /\ UNCHANGED <<lib, loaded>>
            \/ \E l \in LibHandles \ loaded :
                  /\ Log("ModuleLoader_Load", l, TRUE)
                  /\ lib' = l
                  /\ loaded' = loaded \cup {l}
                  /\ pc' = "a_create"
                  /\ UNCHANGED <<mres, result>>
    /\ UNCHANGED <<gw, bus, busDestroyed, refcount, vec, modules, event_system,
                   events, linked, alive, op, arg, idx, entry, mh, rm, pre>>
    /\ UNCHANGED <<stale, made, list, callbacks>>

\* module_apis->Module_Create(bus, module_configuration)
Add_Module_Create ==
    /\ pc = "a_create"
    /\ \/ /\ Log("Module_Create", NULL, FALSE)
          /\ mres' = NULL
          /\ pc' = "a_unload_cf"
          /\ UNCHANGED <<mh, alive, made>>
       \/ \E h \in ModHandles \ alive :
             /\ Log("Module_Create", h, TRUE)
             /\ mh' = h
             /\ alive' = alive \cup {h}
             /\ made' = made \cup {<<lib, h>>}
             /\ pc' = "a_link"
             /\ UNCHANGED mres
    /\ UNCHANGED <<gw, bus, busDestroyed, refcount, vec, modules, event_system,
                   events, linked, loaded, op, arg, idx, entry, lib, rm, result, pre>>
    /\ UNCHANGED <<stale, list, callbacks>>

\* Variant of Add_CreateFailed_Unload: the library stays loaded.
Add_CreateFailed_NoUnload ==
    /\ pc = "a_unload_cf"
    /\ AddReturn(NULL, <<>>)
    /\ UNCHANGED <<gw, bus, busDestroyed, refcount, vec, modules, event_system,
                   events, linked, loaded, alive, op, arg, idx, entry, lib, mh, rm, pre>>
    /\ UNCHANGED <<stale, made, list, callbacks>>

\* Module_Create failed: ModuleLoader_Unload(module_library_handle), return NULL
Add_CreateFailed_Unload ==
    /\ pc = "a_unload_cf"
    /\ loaded' = loaded \ {lib}
    /\ AddReturn(NULL, <<Call("ModuleLoader_Unload", lib, TRUE)>>)
    /\ UNCHANGED <<gw, bus, busDestroyed, refcount, vec, modules, event_system,
                   events, linked, alive, op, arg, idx, entry, lib, mh, rm, pre>>
    /\ UNCHANGED <<stale, made, list, callbacks>>

\* Variant of Add_MessageBus_AddModule: a failed link is rolled back as a
\* failed append is.
Add_MessageBus_AddModule_FullRollback ==
    /\ pc = "a_link"
    /\ \/ /\ Log("MessageBus_AddModule", mh, FALSE)
          /\ mres' = NULL
          /\ pc' = "a_decref"
          /\ UNCHANGED <<linked, stale>>
       \/ /\ Log("MessageBus_AddModule", mh, TRUE)
          /\ linked' = linked \cup {mh}
          /\ stale' = stale \ {mh}
          /\ pc' = "a_incref"
          /\ UNCHANGED mres
    /\ UNCHANGED <<gw, bus, busDestroyed, refcount, vec, modules, event_system,
                   events, loaded, alive, op, arg, idx, entry, lib, mh, rm, result, pre>>
    /\ UNCHANGED <<made, list, callbacks>>

\* MessageBus_AddModule(gateway_handle->bus, &module)
Add_MessageBus_AddModule ==
    /\ pc = "a_link"
    /\ \/ /\ Log("MessageBus_AddModule", mh, FALSE)
          /\ mres' = NULL
          /\ pc' = "a_fin"
          /\ UNCHANGED <<linked, stale>>
       \/ /\ Log("MessageBus_AddModule", mh, TRUE)
          /\ linked' = linked \cup {mh}
          /\ stale' = stale \ {mh}
          /\ pc' = "a_incref"
          /\ UNCHANGED mres
    /\ UNCHANGED <<gw, bus, busDestroyed, refcount, vec, modules, event_system,
                   events, loaded, alive, op, arg, idx, entry, lib, mh, rm, result, pre>>
    /\ UNCHANGED <<made, list, callbacks>>

\* Variant of Add_MessageBus_IncRef: the count goes up by two.
Add_MessageBus_IncRef_Twice ==
    /\ pc = "a_incref"
    /\ Log("MessageBus_IncRef", NULL, TRUE)
    /\ refcount' = refcount + 2
    /\ pc' = "a_push"
    /\ UNCHANGED <<gw, bus, busDestroyed, vec, modules, event_system, events,
                   linked, loaded, alive, op, arg, idx, entry, lib, mh, mres, rm,
                   result, pre>>
    /\ UNCHANGED <<stale, made, list, callbacks>>

\* MessageBus_IncRef(gateway_handle->bus)
Add_MessageBus_IncRef ==
    /\ pc = "a_incref"
    /\ Log("MessageBus_IncRef", NULL, TRUE)
    /\ refcount' = refcount + 1
    /\ pc' = "a_push"
    /\ UNCHANGED <<gw, bus, busDestroyed, vec, modules, event_system, events,
                   linked, loaded, alive, op, arg, idx, entry, lib, mh, mres, rm,
                   result, pre>>
    /\ UNCHANGED <<stale, made, list, callbacks>>

\* Variant of module_data: the two handles in each other's place.
module_data_swapped ==
    [module_name |-> entry.module_name, module_library_handle |-> mh, module |-> lib]

\* MODULE_DATA module_data = { module_name, module_library_handle, module_handle }
module_data ==
    [module_name |-> entry.module_name, module_library_handle |-> lib, module |-> mh]

\* VECTOR_push_back(gateway_handle->modules, &module_data, 1)
Add_VECTOR_push_back ==
    /\ pc = "a_push"
    /\ \/ /\ Log("VECTOR_push_back", mh, FALSE)
          /\ pc' = "a_decref"
          /\ UNCHANGED <<modules, mres>>
       \/ /\ Log("VECTOR_push_back", mh, TRUE)
          /\ modules' = VECTOR_push_back(modules, module_data)
          /\ mres' = mh
          /\ pc' = "a_fin"
    /\ UNCHANGED <<gw, bus, busDestroyed, refcount, vec, event_system, events,
                   linked, loaded, alive, op, arg, idx, entry, lib, mh, rm, result, pre>>
    /\ UNCHANGED <<stale, made, list, callbacks>>

\* Variant of Add_Rollback_DecRef: the rollback forgets the decrement.
Add_Rollback_NoDecRef ==
    /\ pc = "a_decref"
    /\ mres' = NULL
    /\ pc' = "a_unlink"
    /\ UNCHANGED <<gw, bus, busDestroyed, refcount, vec, modules, event_system, events,
                   linked, loaded, alive, op, arg, idx, entry, lib, mh, rm, result,
                   calls, pre>>
    /\ UNCHANGED <<stale, made, list, callbacks>>

\* push_back failed: MessageBus_DecRef(gateway_handle->bus); module_result = NULL
Add_Rollback_DecRef ==
    /\ pc = "a_decref"
    /\ Log("MessageBus_DecRef", NULL, TRUE)
    /\ refcount' = refcount - 1
    /\ mres' = NULL
    /\ pc' = "a_unlink"
    /\ UNCHANGED <<gw, bus, busDestroyed, vec, modules, event_system, events,
                   linked, loaded, alive, op, arg, idx, entry, lib, mh, rm, result, pre>>
    /\ UNCHANGED <<stale, made, list, callbacks>>

\* Variant of Add_Rollback_RemoveModule: the rollback makes no unlink.
Add_Rollback_NoUnlink ==
    /\ pc = "a_unlink"
    /\ pc' = "a_fin"
    /\ UNCHANGED <<gw, bus, busDestroyed, refcount, vec, modules, event_system,
                   events, linked, loaded, alive, op, arg, idx, entry, lib, mh, mres, rm,
                   result, calls, pre, stale, made, list, callbacks>>

\* push_back failed: MessageBus_RemoveModule(gateway_handle->bus, &module), logged if it fails
Add_Rollback_RemoveModule ==
    /\ pc = "a_unlink"
    /\ \E ok \in BOOLEAN :
          /\ Log("MessageBus_RemoveModule", mh, ok)
          /\ linked' = MessageBus_RemoveModule(mh, ok)
          /\ stale' = IF ok THEN stale \ {mh} ELSE stale \cup {mh}
    /\ pc' = "a_fin"
    /\ UNCHANGED <<gw, bus, busDestroyed, refcount, vec, modules, event_system,
                   events, loaded, alive, op, arg, idx, entry, lib, mh, mres, rm,
                   result, pre>>
    /\ UNCHANGED <<made, list, callbacks>>

\* Variant of Add_Module_Destroy: the instance is destroyed and the library
\* unloaded whatever module_result is.
Add_Module_Destroy_Always ==
    /\ pc = "a_fin"
    /\ Log("Module_Destroy", mh, TRUE)
    /\ alive' = alive \ {mh}
    /\ made' = made \ {<<lib, mh>>}
    /\ pc' = "a_unload"
    /\ UNCHANGED <<gw, bus, busDestroyed, refcount, vec, modules, event_system,
                   events, linked, loaded, op, arg, idx, entry, lib, mh, mres, rm,
                   result, pre>>
    /\ UNCHANGED <<stale, list, callbacks>>

\* if (module_result == NULL) module_apis->Module_Destroy(module_handle); else return it
Add_Module_Destroy ==
    /\ pc = "a_fin"
    /\ IF mres = NULL
       THEN /\ Log("Module_Destroy", mh, TRUE)
            /\ alive' = alive \ {mh}
            /\ made' = made \ {<<lib, mh>>}
            /\ pc' = "a_unload"
            /\ UNCHANGED <<mres, result>>
       ELSE /\ AddReturn(mres, <<>>)
            /\ UNCHANGED <<alive, made>>
    /\ UNCHANGED <<gw, bus, busDestroyed, refcount, vec, modules, event_system,
                   events, linked, loaded, op, arg, idx, entry, lib, mh, rm, pre>>
    /\ UNCHANGED <<stale, list, callbacks>>

\* ModuleLoader_Unload(module_library_handle); return module_result (NULL)
Add_Unload ==
    /\ pc = "a_unload"
    /\ loaded' = loaded \ {lib}
    /\ AddReturn(mres, <<Call("ModuleLoader_Unload", lib, TRUE)>>)
    /\ UNCHANGED <<gw, bus, busDestroyed, refcount, vec, modules, event_system,
                   events, linked, alive, op, arg, idx, entry, lib, mh, rm, pre>>
    /\ UNCHANGED <<stale, made, list, callbacks>>

gateway_addmodule_internal ==
    \/ Add_Load
    \/ Add_Module_Create
    \/ Add_CreateFailed_Unload
    \/ Add_MessageBus_AddModule
    \/ Add_MessageBus_IncRef
    \/ Add_VECTOR_push_back
    \/ Add_Rollback_DecRef
    \/ Add_Rollback_RemoveModule
    \/ Add_Module_Destroy
    \/ Add_Unload

(***************************************************************************)
(* gateway_removemodule_internal                                           *)
(***************************************************************************)

\* Variant of Rem_MessageBus_RemoveModule: the removal makes no unlink.
Rem_NoUnlink ==
    /\ pc = "r_unlink"
    /\ pc' = "r_decref"
    /\ UNCHANGED <<gw, bus, busDestroyed, refcount, vec, modules, event_system,
                   events, linked, loaded, alive, op, arg, idx, entry, lib, mh, mres, rm,
                   result, calls, pre, stale, made, list, callbacks>>

\* Variant of Rem_MessageBus_RemoveModule: a failed unlink ends the removal.
Rem_MessageBus_RemoveModule_Abort ==
    /\ pc = "r_unlink"
    /\ \E ok \in BOOLEAN :
          /\ Log("MessageBus_RemoveModule", modules[rm].module, ok)
          /\ linked' = MessageBus_RemoveModule(modules[rm].module, ok)
          /\ stale' = IF ok THEN stale \ {modules[rm].module}
                              ELSE stale \cup {modules[rm].module}
          /\ pc' = IF ok THEN "r_decref" ELSE IF op = "remove" THEN "idle" ELSE "d_vec"
    /\ UNCHANGED <<gw, bus, busDestroyed, refcount, vec, modules, event_system,
                   events, loaded, alive, op, arg, idx, entry, lib, mh, mres, rm,
                   result, pre>>
    /\ UNCHANGED <<made, list, callbacks>>

\* MessageBus_RemoveModule(gateway_handle->bus, &module): a failure is only logged
Rem_MessageBus_RemoveModule ==
    /\ pc = "r_unlink"
    /\ \E ok \in BOOLEAN :
          /\ Log("MessageBus_RemoveModule", modules[rm].module, ok)
          /\ linked' = MessageBus_RemoveModule(modules[rm].module, ok)
          /\ stale' = IF ok THEN stale \ {modules[rm].module}
                              ELSE stale \cup {modules[rm].module}
    /\ pc' = "r_decref"
    /\ UNCHANGED <<gw, bus, busDestroyed, refcount, vec, modules, event_system,
                   events, loaded, alive, op, arg, idx, entry, lib, mh, mres, rm,
                   result, pre>>
    /\ UNCHANGED <<made, list, callbacks>>

\* Variant of Rem_MessageBus_DecRef: the count is not given back.
Rem_NoDecRef ==
    /\ pc = "r_decref"
    /\ Log("MessageBus_DecRef", NULL, TRUE)
    /\ pc' = "r_destroy"
    /\ UNCHANGED <<gw, bus, busDestroyed, refcount, vec, modules, event_system, events,
                   linked, loaded, alive, op, arg, idx, entry, lib, mh, mres, rm,
                   result, pre>>
    /\ UNCHANGED <<stale, made, list, callbacks>>

\* Variant of Rem_MessageBus_DecRef: the count is given back only when the
\* unlink before it succeeded.
Rem_MessageBus_DecRef_IfUnlinked ==
    /\ pc = "r_decref"
    /\ Log("MessageBus_DecRef", NULL, TRUE)
    /\ refcount' = IF calls[Len(calls)].ok THEN refcount - 1 ELSE refcount
    /\ pc' = "r_destroy"
    /\ UNCHANGED <<gw, bus, busDestroyed, vec, modules, event_system, events,
                   linked, loaded, alive, op, arg, idx, entry, lib, mh, mres, rm,
                   result, pre>>
    /\ UNCHANGED <<stale, made, list, callbacks>>

\* MessageBus_DecRef(gateway_handle->bus)
Rem_MessageBus_DecRef ==
    /\ pc = "r_decref"
    /\ Log("MessageBus_DecRef", NULL, TRUE)
    /\ refcount' = refcount - 1
    /\ pc' = "r_destroy"
    /\ UNCHANGED <<gw, bus, busDestroyed, vec, modules, event_system, events,
                   linked, loaded, alive, op, arg, idx, entry, lib, mh, mres, rm,
                   result, pre>>
    /\ UNCHANGED <<stale, made, list, callbacks>>

\* ModuleLoader_GetModuleAPIs(module_library_handle)->Module_Destroy(module_data->module)
Rem_Module_Destroy ==
    /\ pc = "r_destroy"
    /\ Log("Module_Destroy", modules[rm].module, TRUE)
    /\ alive' = alive \ {modules[rm].module}
    /\ made' = made \ {<<modules[rm].module_library_handle, modules[rm].module>>}
    /\ pc' = "r_unload"
    /\ UNCHANGED <<gw, bus, busDestroyed, refcount, vec, modules, event_system,
                   events, linked, loaded, op, arg, idx, entry, lib, mh, mres, rm,
                   result, pre>>
    /\ UNCHANGED <<stale, list, callbacks>>

\* ModuleLoader_Unload(module_data->module_library_handle)
Rem_Unload ==
    /\ pc = "r_unload"
    /\ Log("ModuleLoader_Unload", modules[rm].module_library_handle, TRUE)
    /\ loaded' = loaded \ {modules[rm].module_library_handle}
    /\ pc' = "r_erase"
    /\ UNCHANGED <<gw, bus, busDestroyed, refcount, vec, modules, event_system,
                   events, linked, alive, op, arg, idx, entry, lib, mh, mres, rm,
                   result, pre>>
    /\ UNCHANGED <<stale, made, list, callbacks>>

\* VECTOR_erase(gateway_handle->modules, module_data, 1); return to
\* Gateway_LL_RemoveModule or to the loop of gateway_destroy_internal
Rem_VECTOR_erase ==
    /\ pc = "r_erase"
    /\ Log("VECTOR_erase", modules[rm].module, TRUE)
    /\ modules' = VECTOR_erase(modules, rm)
    /\ pc' = IF op = "remove" THEN "idle" ELSE "d_loop"
    /\ UNCHANGED <<gw, bus, busDestroyed, refcount, vec, event_system, events,
                   linked, loaded, alive, op, arg, idx, entry, lib, mh, mres, rm,
                   result, pre>>
    /\ UNCHANGED <<stale, made, list, callbacks>>

gateway_removemodule_internal ==
    \/ Rem_MessageBus_RemoveModule
    \/ Rem_MessageBus_DecRef
    \/ Rem_Module_Destroy
    \/ Rem_Unload
    \/ Rem_VECTOR_erase

(***************************************************************************)
(* gateway_destroy_internal (gw != NULL)                                   *)
(***************************************************************************)

\* Variant of Destroy_ReportEvent: GATEWAY_DESTROYED is not reported.
Destroy_ReportEvent_Silent ==
    /\ pc = "d_report"
    /\ pc' = "d_esd"
    /\ UNCHANGED <<gw, bus, busDestroyed, refcount, vec, modules, event_system,
                   events, linked, loaded, alive, op, arg, idx, entry, lib, mh, mres,
                   rm, result, calls, pre>>
    /\ UNCHANGED <<stale, made, list, callbacks>>

\* EventSystem_ReportEvent(gw->event_system, gw, GATEWAY_DESTROYED)
Destroy_ReportEvent ==
    /\ pc = "d_report"
    /\ Log("Report_GATEWAY_DESTROYED", NULL, event_system = "live")
    /\ events' = EventSystem_ReportEvent(event_system, "GATEWAY_DESTROYED")
    /\ pc' = "d_esd"
    /\ UNCHANGED <<gw, bus, busDestroyed, refcount, vec, modules, event_system,
                   linked, loaded, alive, op, arg, idx, entry, lib, mh, mres, rm,
                   result, pre>>
    /\ UNCHANGED <<stale, made, list, callbacks>>

\* EventSystem_Destroy(gw->event_system); gw->event_system = NULL: the callback
\* system goes, and the callbacks registered with it
Destroy_EventSystem_Destroy ==
    /\ pc = "d_esd"
    /\ Log("EventSystem_Destroy", NULL, event_system = "live")
    /\ event_system' = "null"
    /\ pc' = "d_loop"
    /\ UNCHANGED <<gw, bus, busDestroyed, refcount, vec, modules, events,
                   linked, loaded, alive, op, arg, idx, entry, lib, mh, mres, rm,
                   result, pre>>
    /\ callbacks' = <<>>
    /\ UNCHANGED <<stale, made, list>>

\* Variant of Destroy_Loop: the drain takes the record at the back.
Destroy_Loop_FromBack ==
    /\ pc = "d_loop"
    /\ IF vec # "null" /\ Len(modules) > 0
       THEN rm' = Len(modules) /\ pc' = "r_unlink"
       ELSE pc' = "d_vec" /\ UNCHANGED rm
    /\ UNCHANGED <<gw, bus, busDestroyed, refcount, vec, modules, event_system,
                   events, linked, loaded, alive, op, arg, idx, entry, lib, mh,
                   mres, result, calls, pre>>
    /\ UNCHANGED <<stale, made, list, callbacks>>

\* Variant of Destroy_Loop: the drain stops one record early.
Destroy_Loop_StopsEarly ==
    /\ pc = "d_loop"
    /\ IF vec # "null" /\ Len(modules) > 1
       THEN rm' = 1 /\ pc' = "r_unlink"
       ELSE pc' = "d_vec" /\ UNCHANGED rm
    /\ UNCHANGED <<gw, bus, busDestroyed, refcount, vec, modules, event_system,
                   events, linked, loaded, alive, op, arg, idx, entry, lib, mh,
                   mres, result, calls, pre>>
    /\ UNCHANGED <<stale, made, list, callbacks>>

\* while (modules != NULL && VECTOR_size(modules) > 0)
\*     gateway_removemodule_internal(gateway_handle, VECTOR_front(modules))
Destroy_Loop ==
    /\ pc = "d_loop"
    /\ IF vec # "null" /\ Len(modules) > 0
       THEN rm' = 1 /\ pc' = "r_unlink"
       ELSE pc' = "d_vec" /\ UNCHANGED rm
    /\ UNCHANGED <<gw, bus, busDestroyed, refcount, vec, modules, event_system,
                   events, linked, loaded, alive, op, arg, idx, entry, lib, mh,
                   mres, result, calls, pre>>
    /\ UNCHANGED <<stale, made, list, callbacks>>

\* VECTOR_destroy(gateway_handle->modules)
Destroy_VECTOR_destroy ==
    /\ pc = "d_vec"
    /\ Log("VECTOR_destroy", NULL, TRUE)
    /\ vec' = "destroyed"
    /\ pc' = "d_bus"
    /\ UNCHANGED <<gw, bus, busDestroyed, refcount, modules, event_system, events,
                   linked, loaded, alive, op, arg, idx, entry, lib, mh, mres, rm,
                   result, pre>>
    /\ UNCHANGED <<stale, made, list, callbacks>>

\* MessageBus_Destroy(gateway_handle->bus)
Destroy_MessageBus_Destroy ==
    /\ pc = "d_bus"
    /\ Log("MessageBus_Destroy", NULL, TRUE)
    /\ bus' = "destroyed"
    /\ busDestroyed' = busDestroyed + 1
    /\ pc' = "d_free"
    /\ UNCHANGED <<gw, refcount, vec, modules, event_system, events,
                   linked, loaded, alive, op, arg, idx, entry, lib, mh, mres, rm,
                   result, pre>>
    /\ UNCHANGED <<stale, made, list, callbacks>>

\* free(gateway_handle); in Gateway_LL_Create: gateway = NULL, return gateway
Destroy_free ==
    /\ pc = "d_free"
    /\ Log("free", NULL, TRUE)
    /\ gw' = "gone"
    /\ result' = NULL
    /\ pc' = "idle"
    /\ UNCHANGED <<bus, busDestroyed, refcount, vec, modules, event_system, events,
                   linked, loaded, alive, op, arg, idx, entry, lib, mh, mres, rm, pre>>
    /\ UNCHANGED <<stale, made, list, callbacks>>

gateway_destroy_internal ==
    \/ Destroy_ReportEvent
    \/ Destroy_EventSystem_Destroy
    \/ Destroy_Loop
    \/ Destroy_VECTOR_destroy
    \/ Destroy_MessageBus_Destroy
    \/ Destroy_free

(***************************************************************************)
(* Gateway_LL_Create                                                       *)
(***************************************************************************)

\* const GATEWAY_PROPERTIES* properties: NULL, or a list of at most MaxModules
\* entries (a NULL gateway_properties_entries behaves as the NULL properties do)
Properties ==
    {[null |-> TRUE, entries |-> <<>>]} \cup
    {[null |-> FALSE, entries |-> e] :
        e \in UNION {[1..n -> Descriptors] : n \in 0..MaxModules}}

\* malloc(sizeof(GATEWAY_HANDLE_DATA)), memset
Gateway_LL_Create ==
    /\ pc = "idle"
    /\ gw = "none"
    /\ \E p \in Properties : Enter("create", p)
    /\ result' = NULL
    /\ \/ /\ calls' = <<Call("malloc", NULL, FALSE)>>
          /\ gw' = "gone"
          /\ pc' = "idle"
       \/ /\ calls' = <<Call("malloc", NULL, TRUE)>>
          /\ gw' = "building"
          /\ pc' = "c_bus"
    /\ entry' = NoEntry
    /\ rm' = 0
    /\ UNCHANGED <<bus, busDestroyed, refcount, vec, modules, event_system, events,
                   linked, loaded, alive>>
    /\ UNCHANGED <<stale, made, list, callbacks>>

\* gateway->bus = MessageBus_Create()
Create_MessageBus_Create ==
    /\ pc = "c_bus"
    /\ \/ /\ Log("MessageBus_Create", NULL, FALSE)
          /\ gw' = "gone"
          /\ result' = NULL
          /\ pc' = "idle"
          /\ UNCHANGED <<bus, refcount>>
       \/ /\ Log("MessageBus_Create", NULL, TRUE)
          /\ bus' = "live"
          /\ refcount' = Baseline
          /\ pc' = "c_vec"
          /\ UNCHANGED <<gw, result>>
    /\ UNCHANGED <<busDestroyed, vec, modules, event_system, events,
                   linked, loaded, alive, op, arg, idx, entry, lib, mh, mres, rm, pre>>
    /\ UNCHANGED <<stale, made, list, callbacks>>

\* gateway->modules = VECTOR_create(sizeof(MODULE_DATA)); on failure
\* MessageBus_Destroy(gateway->bus), free(gateway)
Create_VECTOR_create ==
    /\ pc = "c_vec"
    /\ \/ /\ calls' = calls \o <<Call("VECTOR_create", NULL, FALSE),
                                 Call("MessageBus_Destroy", NULL, TRUE),
                                 Call("free", NULL, TRUE)>>
          /\ bus' = "destroyed"
          /\ busDestroyed' = busDestroyed + 1
          /\ gw' = "gone"
          /\ result' = NULL
          /\ pc' = "idle"
          /\ UNCHANGED <<vec, idx>>
       \/ /\ Log("VECTOR_create", NULL, TRUE)
          /\ vec' = "live"
          /\ idx' = 0
          /\ pc' = "c_loop"
          /\ UNCHANGED <<gw, bus, busDestroyed, result>>
    /\ UNCHANGED <<refcount, modules, event_system, events, linked, loaded, alive,
                   op, arg, entry, lib, mh, mres, rm, pre>>
    /\ UNCHANGED <<stale, made, list, callbacks>>

\* Variant of Create_Loop: the last entry of the list is never read.
Create_Loop_SkipsLast ==
    /\ pc = "c_loop"
    /\ IF ~arg.null /\ idx + 1 < Len(arg.entries)
       THEN /\ entry' = arg.entries[idx + 1]
            /\ pc' = "a_load"
       ELSE /\ pc' = "c_evt"
            /\ UNCHANGED entry
    /\ UNCHANGED <<gw, bus, busDestroyed, refcount, vec, modules, event_system,
                   events, linked, loaded, alive, op, arg, idx, lib, mh, mres, rm,
                   result, calls, pre>>
    /\ UNCHANGED <<stale, made, list, callbacks>>

\* the next entry of properties->gateway_properties_entries, if there is one,
\* goes to gateway_addmodule_internal
Create_Loop ==
    /\ pc = "c_loop"
    /\ IF ~arg.null /\ idx < Len(arg.entries)
       THEN /\ entry' = arg.entries[idx + 1]
            /\ pc' = "a_load"
       ELSE /\ pc' = "c_evt"
            /\ UNCHANGED entry
    /\ UNCHANGED <<gw, bus, busDestroyed, refcount, vec, modules, event_system,
                   events, linked, loaded, alive, op, arg, idx, lib, mh, mres, rm,
                   result, calls, pre>>
    /\ UNCHANGED <<stale, made, list, callbacks>>

\* Variant of Create_AfterAdd: a failed add does not stop the loop.
Create_AfterAdd_GoesOn ==
    /\ pc = "c_next"
    /\ pc' = "c_loop"
    /\ idx' = idx + 1
    /\ UNCHANGED <<gw, bus, busDestroyed, refcount, vec, modules, event_system,
                   events, linked, loaded, alive, op, arg, entry, lib, mh, mres, rm,
                   result, calls, pre>>
    /\ UNCHANGED <<stale, made, list, callbacks>>

\* gateway_addmodule_internal returned: the loop goes on while module != NULL,
\* and if (module == NULL) gateway_destroy_internal(gateway)
Create_AfterAdd ==
    /\ pc = "c_next"
    /\ IF mres = NULL
       THEN pc' = "d_report" /\ UNCHANGED idx
       ELSE pc' = "c_loop" /\ idx' = idx + 1
    /\ UNCHANGED <<gw, bus, busDestroyed, refcount, vec, modules, event_system,
                   events, linked, loaded, alive, op, arg, entry, lib, mh, mres, rm,
                   result, calls, pre>>
    /\ UNCHANGED <<stale, made, list, callbacks>>

\* Variant of Create_EventSystem_Init: on failure only the shell is released.
Create_EventSystem_Init_FreesOnly ==
    /\ pc = "c_evt"
    /\ \/ /\ calls' = calls \o <<Call("EventSystem_Init", NULL, FALSE),
                                 Call("free", NULL, TRUE)>>
          /\ gw' = "gone"
          /\ pc' = "idle"
          /\ UNCHANGED event_system
       \/ /\ Log("EventSystem_Init", NULL, TRUE)
          /\ event_system' = "live"
          /\ pc' = "c_created"
          /\ UNCHANGED gw
    /\ UNCHANGED <<bus, busDestroyed, refcount, vec, modules, events,
                   linked, loaded, alive, op, arg, idx, entry, lib, mh, mres, rm,
                   result, pre>>
    /\ UNCHANGED <<stale, made, list, callbacks>>

\* gateway->event_system = EventSystem_Init(); on failure gateway_destroy_internal
Create_EventSystem_Init ==
    /\ pc = "c_evt"
    /\ \/ /\ Log("EventSystem_Init", NULL, FALSE)
          /\ pc' = "d_report"
          /\ UNCHANGED event_system
       \/ /\ Log("EventSystem_Init", NULL, TRUE)
          /\ event_system' = "live"
          /\ pc' = "c_created"
    /\ UNCHANGED <<gw, bus, busDestroyed, refcount, vec, modules, events,
                   linked, loaded, alive, op, arg, idx, entry, lib, mh, mres, rm,
                   result, pre>>
    /\ UNCHANGED <<stale, made, list, callbacks>>

\* Variant of Create_Report_CREATED: the wrong event kind is reported.
Create_Report_CREATED_WrongKind ==
    /\ pc = "c_created"
    /\ Log("Report_GATEWAY_MODULE_LIST_CHANGED", NULL, event_system = "live")
    /\ events' = EventSystem_ReportEvent(event_system, "GATEWAY_MODULE_LIST_CHANGED")
    /\ pc' = "c_mlc"
    /\ UNCHANGED <<gw, bus, busDestroyed, refcount, vec, modules, event_system,
                   linked, loaded, alive, op, arg, idx, entry, lib, mh, mres, rm,
                   result, pre>>
    /\ UNCHANGED <<stale, made, list, callbacks>>

\* EventSystem_ReportEvent(gateway->event_system, gateway, GATEWAY_CREATED)
Create_Report_CREATED ==
    /\ pc = "c_created"
    /\ Log("Report_GATEWAY_CREATED", NULL, event_system = "live")
    /\ events' = EventSystem_ReportEvent(event_system, "GATEWAY_CREATED")
    /\ pc' = "c_mlc"
    /\ UNCHANGED <<gw, bus, busDestroyed, refcount, vec, modules, event_system,
                   linked, loaded, alive, op, arg, idx, entry, lib, mh, mres, rm,
                   result, pre>>
    /\ UNCHANGED <<stale, made, list, callbacks>>

\* EventSystem_ReportEvent(..., GATEWAY_MODULE_LIST_CHANGED); return gateway
Create_Report_MODULE_LIST_CHANGED ==
    /\ pc = "c_mlc"
    /\ Log("Report_GATEWAY_MODULE_LIST_CHANGED", NULL, event_system = "live")
    /\ events' = EventSystem_ReportEvent(event_system, "GATEWAY_MODULE_LIST_CHANGED")
    /\ gw' = "live"
    /\ result' = GW
    /\ pc' = "idle"
    /\ UNCHANGED <<bus, busDestroyed, refcount, vec, modules, event_system,
                   linked, loaded, alive, op, arg, idx, entry, lib, mh, mres, rm, pre>>
    /\ UNCHANGED <<stale, made, list, callbacks>>

Create ==
    \/ Gateway_LL_Create
    \/ Create_MessageBus_Create
    \/ Create_VECTOR_create
    \/ Create_Loop
    \/ Create_AfterAdd
    \/ Create_EventSystem_Init
    \/ Create_Report_CREATED
    \/ Create_Report_MODULE_LIST_CHANGED

(***************************************************************************)
(* The other public operations.  A caller passes NULL or the handle that   *)
(* Gateway_LL_Create returned (and not yet destroyed).                     *)
(***************************************************************************)

Handles == {NULL} \cup (IF gw = "live" THEN {GW} ELSE {})

\* const GATEWAY_PROPERTIES_ENTRY* entry: NULL or a descriptor
Entries ==
    {[null |-> TRUE, entry |-> NoEntry]} \cup
    {[null |-> FALSE, entry |-> d] : d \in Descriptors}

\* Variant of Gateway_LL_AddModule: gw is not looked at.
Gateway_LL_AddModule_Unchecked ==
    /\ pc = "idle"
    /\ \E g \in Handles, e \in Entries :
          /\ Enter("add", [gw |-> g, null |-> e.null, entry |-> e.entry])
          /\ IF ~e.null
             THEN /\ entry' = e.entry
                  /\ pc' = "a_load"
             ELSE /\ entry' = NoEntry
                  /\ pc' = "idle"
    /\ result' = NULL
    /\ rm' = 0
    /\ calls' = <<>>
    /\ UNCHANGED <<gw, bus, busDestroyed, refcount, vec, modules, event_system,
                   events, linked, loaded, alive>>
    /\ UNCHANGED <<stale, made, list, callbacks>>

Gateway_LL_AddModule ==
    /\ pc = "idle"
    /\ \E g \in Handles, e \in Entries :
          /\ Enter("add", [gw |-> g, null |-> e.null, entry |-> e.entry])
          /\ IF g # NULL /\ ~e.null
             THEN /\ entry' = e.entry
                  /\ pc' = "a_load"
             ELSE /\ entry' = NoEntry
                  /\ pc' = "idle"
    /\ result' = NULL
    /\ rm' = 0
    /\ calls' = <<>>
    /\ UNCHANGED <<gw, bus, busDestroyed, refcount, vec, modules, event_system,
                   events, linked, loaded, alive>>
    /\ UNCHANGED <<stale, made, list, callbacks>>

Gateway_LL_RemoveModule ==
    /\ pc = "idle"
    /\ \E g \in Handles, m \in {NULL} \cup ModHandles :
          /\ Enter("remove", [gw |-> g, module |-> m])
          /\ IF g # NULL /\ VECTOR_find_if(m) # 0
             THEN /\ rm' = VECTOR_find_if(m)
                  /\ pc' = "r_unlink"
             ELSE /\ pc' = "idle"
                  /\ rm' = 0
    /\ entry' = NoEntry
    /\ result' = NULL
    /\ calls' = <<>>
    /\ UNCHANGED <<gw, bus, busDestroyed, refcount, vec, modules, event_system,
                   events, linked, loaded, alive>>
    /\ UNCHANGED <<stale, made, list, callbacks>>

Gateway_LL_Destroy ==
    /\ pc = "idle"
    /\ \E g \in Handles :
          /\ Enter("destroy", [gw |-> g])
          /\ pc' = IF g # NULL THEN "d_report" ELSE "idle"
    /\ entry' = NoEntry
    /\ rm' = 0
    /\ result' = NULL
    /\ calls' = <<>>
    /\ UNCHANGED <<gw, bus, busDestroyed, refcount, vec, modules, event_system,
                   events, linked, loaded, alive>>
    /\ UNCHANGED <<stale, made, list, callbacks>>

(***************************************************************************)
(* Gateway_GetModuleList and Gateway_AddEventCallback                      *)
(***************************************************************************)

\* the vector Gateway_GetModuleList returns (any handle but NULL)
ModuleListHandle == 1

\* GATEWAY_EVENT
GatewayEvents == {"GATEWAY_CREATED", "GATEWAY_MODULE_LIST_CHANGED", "GATEWAY_DESTROYED"}

\* for (i < module_count) info[i].module_name = module_data->module_name
GATEWAY_MODULE_INFO(s) == [i \in 1..Len(s) |-> s[i].module_name]

\* what the vector Gateway_GetModuleList returned holds now: its own elements,
\* or the registry's if it were the registry itself
ListContents == IF list.view THEN GATEWAY_MODULE_INFO(modules) ELSE list.names

\* Variant of Gateway_GetModuleList: gw->modules itself is handed out.
Gateway_GetModuleList_View ==
    /\ pc = "idle"
    /\ \E g \in Handles :
          /\ Enter("list", [gw |-> g])
          /\ IF g = NULL
             THEN calls' = <<>> /\ result' = NULL /\ list' = list
             ELSE /\ calls' = <<>>
                  /\ result' = ModuleListHandle
                  /\ list' = [returned |-> TRUE, view |-> TRUE, names |-> <<>>]
    /\ pc' = "idle"
    /\ entry' = NoEntry
    /\ rm' = 0
    /\ UNCHANGED <<gw, bus, busDestroyed, refcount, vec, modules, event_system,
                   events, linked, loaded, alive, stale, made, callbacks>>

\* Gateway_GetModuleList(gw): NULL for a NULL gw; else a new vector, a malloc'ed
\* array of module_count elements filled from the registry and pushed to the
\* vector, and the array freed.  The malloc is not checked: when it fails with
\* module_count > 0 the loop writes through NULL, and the program stops there
\* or goes on to a VECTOR_push_back of NULL elements, which fails.
Gateway_GetModuleList ==
    /\ pc = "idle"
    /\ \E g \in Handles :
          /\ Enter("list", [gw |-> g])
          /\ IF g = NULL
             THEN calls' = <<>> /\ result' = NULL /\ list' = list /\ pc' = "idle"
             ELSE \/ /\ calls' = <<Call("VECTOR_create", NULL, FALSE)>>
                     /\ result' = NULL /\ list' = list /\ pc' = "idle"
                  \/ /\ calls' = <<Call("VECTOR_create", NULL, TRUE),
                                   Call("malloc", NULL, TRUE),
                                   Call("VECTOR_push_back", NULL, TRUE),
                                   Call("free", NULL, TRUE)>>
                     /\ result' = ModuleListHandle
                     /\ list' = [returned |-> TRUE, view |-> FALSE,
                                 names |-> GATEWAY_MODULE_INFO(modules)]
                     /\ pc' = "idle"
                  \/ /\ \E m \in BOOLEAN :
                           calls' = <<Call("VECTOR_create", NULL, TRUE),
                                      Call("malloc", NULL, m),
                                      Call("VECTOR_push_back", NULL, FALSE),
                                      Call("VECTOR_destroy", NULL, TRUE),
                                      Call("free", NULL, TRUE)>>
                     /\ result' = NULL /\ list' = list /\ pc' = "idle"
                  \/ /\ Len(modules) > 0
                     /\ calls' = <<Call("VECTOR_create", NULL, TRUE),
                                   Call("malloc", NULL, FALSE)>>
                     /\ result' = NULL /\ list' = list /\ pc' = "crashed"
    /\ entry' = NoEntry
    /\ rm' = 0
    /\ UNCHANGED <<gw, bus, busDestroyed, refcount, vec, modules, event_system,
                   events, linked, loaded, alive, stale, made, callbacks>>

\* Gateway_AddEventCallback(gw, event_type, callback): nothing for a NULL gw,
\* else EventSystem_AddEventCallback(gw->event_system, event_type, callback)
Gateway_AddEventCallback ==
    /\ pc = "idle"
    /\ \E g \in Handles, t \in GatewayEvents :
          /\ Enter("callback", [gw |-> g, event_type |-> t])
          /\ IF g = NULL
             THEN calls' = <<>> /\ callbacks' = callbacks
             ELSE /\ Len(callbacks) < MaxCallbacks
                  /\ calls' = <<Call("EventSystem_AddEventCallback", NULL, TRUE)>>
                  /\ callbacks' = Append(callbacks, t)
    /\ pc' = "idle"
    /\ entry' = NoEntry
    /\ rm' = 0
    /\ result' = NULL
    /\ UNCHANGED <<gw, bus, busDestroyed, refcount, vec, modules, event_system,
                   events, linked, loaded, alive, stale, made, list>>

Next ==
    \/ Create
    \/ Gateway_LL_AddModule
    \/ gateway_addmodule_internal
    \/ Gateway_LL_RemoveModule
    \/ gateway_removemodule_internal
    \/ Gateway_LL_Destroy
    \/ gateway_destroy_internal

Spec == Init /\ [][Next]_vars

\* the gateway with the two operations that read it and listen to it
NextApi ==
    \/ Next
    \/ Gateway_GetModuleList
    \/ Gateway_AddEventCallback

SpecApi == Init /\ [][NextApi]_vars

(***************************************************************************)
(* The build with UWP_BINDING: Gateway_LL_UwpCreate, Gateway_LL_UwpDestroy *)
(***************************************************************************)

\* const VECTOR_HANDLE modules: NULL, or a vector of at most MaxModules MODULEs
UwpModules ==
    {[null |-> TRUE, modules |-> <<>>]} \cup
    {[null |-> FALSE, modules |-> m] :
        m \in {q \in UNION {[1..n -> ModHandles] : n \in 0..MaxModules} :
                  \A i, j \in DOMAIN q : q[i] = q[j] => i = j}}

\* the element of gateway->modules for MODULE m
UwpElement(m) == [module_name |-> NULL, module_library_handle |-> NULL, module |-> m]

\* Gateway_LL_UwpCreate(modules, bus) up to the loop: malloc, the two NULL
\* checks (each frees the shell and returns NULL), entries_count
Gateway_LL_UwpCreate ==
    /\ pc = "idle" /\ gw = "none"
    /\ \E ok \in BOOLEAN, b \in {NULL, 1}, m \in UwpModules :
          /\ Enter("uwp_create", [bus |-> b, null |-> m.null, modules |-> m.modules])
          /\ IF ~ok
             THEN /\ calls' = <<Call("malloc", NULL, FALSE)>>
                  /\ pc' = "idle"
                  /\ UNCHANGED <<gw, bus, refcount, vec, modules>>
             ELSE IF b = NULL \/ m.null
             THEN /\ calls' = <<Call("malloc", NULL, TRUE), Call("free", NULL, TRUE)>>
                  /\ gw' = "gone"
                  /\ bus' = IF b = NULL THEN bus ELSE "live"
                  /\ refcount' = IF b = NULL THEN refcount ELSE Baseline
                  /\ pc' = "idle"
                  /\ UNCHANGED <<vec, modules>>
             ELSE /\ calls' = <<Call("malloc", NULL, TRUE)>>
                  /\ gw' = "building"
                  /\ bus' = "live"
                  /\ refcount' = Baseline
                  /\ vec' = "live"
                  /\ modules' = [i \in DOMAIN m.modules |-> UwpElement(m.modules[i])]
                  /\ pc' = "u_loop"
    /\ entry' = NoEntry
    /\ rm' = 0
    /\ result' = NULL
    /\ UNCHANGED <<busDestroyed, event_system, events, linked, loaded, alive,
                   stale, made, list, callbacks>>

\* for (index < entries_count): MessageBus_AddModule(gateway->bus,
\* VECTOR_element(gateway->modules, index)); on failure free(gateway) and
\* gateway = NULL, and the loop goes on.  After a failure gateway->modules and
\* gateway->bus are read through NULL: the program stops there, or the loop is
\* cut short, or it goes on with the values it read before.  After the loop:
\* return gateway.
UwpCreate_Loop ==
    /\ pc = "u_loop"
    /\ IF idx < Len(modules)
       THEN \/ /\ gw = "gone"
               /\ Log("gateway->modules", NULL, FALSE)
               /\ pc' = "crashed"
               /\ UNCHANGED <<gw, linked, stale, idx, result>>
            \/ /\ gw = "gone"
               /\ pc' = "idle"
               /\ UNCHANGED <<gw, linked, stale, idx, result, calls>>
            \/ \E ok \in BOOLEAN :
                  /\ calls' = calls \o
                        (IF gw = "gone"
                         THEN <<Call("gateway->modules", NULL, FALSE)>> ELSE <<>>) \o
                        <<Call("MessageBus_AddModule", modules[idx + 1].module, ok)>> \o
                        (IF ok THEN <<>> ELSE <<Call("free", NULL, gw # "gone")>>)
                  /\ linked' = IF ok THEN linked \cup {modules[idx + 1].module} ELSE linked
                  /\ stale' = IF ok THEN stale \ {modules[idx + 1].module} ELSE stale
                  /\ gw' = IF ok THEN gw ELSE "gone"
                  /\ pc' = IF ok THEN "u_incref" ELSE "u_loop"
                  /\ idx' = IF ok THEN idx ELSE idx + 1
                  /\ UNCHANGED result
       ELSE /\ gw' = IF gw = "building" THEN "live" ELSE gw
            /\ result' = IF gw = "building" THEN GW ELSE NULL
            /\ pc' = "idle"
            /\ UNCHANGED <<linked, stale, idx, calls>>
    /\ UNCHANGED <<bus, busDestroyed, refcount, vec, modules, event_system, events,
                   loaded, alive, op, arg, entry, lib, mh, mres, rm, pre,
                   made, list, callbacks>>

\* MessageBus_IncRef(gateway->bus); ++index
UwpCreate_IncRef ==
    /\ pc = "u_incref"
    /\ Log("MessageBus_IncRef", NULL, TRUE)
    /\ refcount' = refcount + 1
    /\ idx' = idx + 1
    /\ pc' = "u_loop"
    /\ UNCHANGED <<gw, bus, busDestroyed, vec, modules, event_system, events,
                   linked, loaded, alive, op, arg, entry, lib, mh, mres, rm,
                   result, pre, stale, made, list, callbacks>>

\* Gateway_LL_UwpDestroy(gw): nothing for a NULL gw; entries_count
Gateway_LL_UwpDestroy ==
    /\ pc = "idle"
    /\ \E g \in Handles :
          /\ Enter("uwp_destroy", [gw |-> g])
          /\ pc' = IF g # NULL THEN "ud_loop" ELSE "idle"
    /\ entry' = NoEntry
    /\ rm' = 0
    /\ result' = NULL
    /\ calls' = <<>>
    /\ UNCHANGED <<gw, bus, busDestroyed, refcount, vec, modules, event_system,
                   events, linked, loaded, alive, stale, made, list, callbacks>>

\* for (index < entries_count): MessageBus_RemoveModule(bus, module), a failure
\* only logged
UwpDestroy_Loop ==
    /\ pc = "ud_loop"
    /\ IF idx < Len(modules)
       THEN \E ok \in BOOLEAN :
               /\ Log("MessageBus_RemoveModule", modules[idx + 1].module, ok)
               /\ linked' = MessageBus_RemoveModule(modules[idx + 1].module, ok)
               /\ stale' = IF ok THEN stale \ {modules[idx + 1].module}
                                   ELSE stale \cup {modules[idx + 1].module}
               /\ pc' = "ud_decref"
       ELSE /\ pc' = "ud_bus"
            /\ UNCHANGED <<linked, stale, calls>>
    /\ UNCHANGED <<gw, bus, busDestroyed, refcount, vec, modules, event_system,
                   events, loaded, alive, op, arg, idx, entry, lib, mh, mres, rm,
                   result, pre, made, list, callbacks>>

\* MessageBus_DecRef(gateway_handle->bus); ++index
UwpDestroy_DecRef ==
    /\ pc = "ud_decref"
    /\ Log("MessageBus_DecRef", NULL, TRUE)
    /\ refcount' = refcount - 1
    /\ idx' = idx + 1
    /\ pc' = "ud_loop"
    /\ UNCHANGED <<gw, bus, busDestroyed, vec, modules, event_system, events,
                   linked, loaded, alive, op, arg, entry, lib, mh, mres, rm,
                   result, pre, stale, made, list, callbacks>>

\* MessageBus_Destroy(gateway_handle->bus)
UwpDestroy_MessageBus_Destroy ==
    /\ pc = "ud_bus"
    /\ Log("MessageBus_Destroy", NULL, TRUE)
    /\ bus' = "destroyed"
    /\ busDestroyed' = busDestroyed + 1
    /\ pc' = "ud_free"
    /\ UNCHANGED <<gw, refcount, vec, modules, event_system, events,
                   linked, loaded, alive, op, arg, idx, entry, lib, mh, mres, rm,
                   result, pre, stale, made, list, callbacks>>

\* free(gateway_handle)
UwpDestroy_free ==
    /\ pc = "ud_free"
    /\ Log("free", NULL, TRUE)
    /\ gw' = "gone"
    /\ pc' = "idle"
    /\ UNCHANGED <<bus, busDestroyed, refcount, vec, modules, event_system, events,
                   linked, loaded, alive, op, arg, idx, entry, lib, mh, mres, rm,
                   result, pre, stale, made, list, callbacks>>

NextUwp ==
    \/ Gateway_LL_UwpCreate
    \/ UwpCreate_Loop
    \/ UwpCreate_IncRef
    \/ Gateway_LL_UwpDestroy
    \/ UwpDestroy_Loop
    \/ UwpDestroy_DecRef
    \/ UwpDestroy_MessageBus_Destroy
    \/ UwpDestroy_free

SpecUwp == Init /\ [][NextUwp]_vars

(***************************************************************************)
(* Reading the trace of an operation.                                      *)
(***************************************************************************)

\* positions of the calls to f
At(f) == {i \in DOMAIN calls : calls[i].f = f}
\* positions of the calls to f on handle h
AtH(f, h) == {i \in At(f) : calls[i].h = h}
\* returns of gateway_addmodule_internal, and the failed ones
AddReturns == At("gateway_addmodule_internal")
FailedAdds == {i \in AddReturns : ~calls[i].ok}
\* module handles gateway_addmodule_internal returned
AddedHandles == {calls[i].h : i \in AddReturns \ FailedAdds}
\* some collaborator call of the operation reported failure
SomeCallFailed == \E i \in DOMAIN calls : ~calls[i].ok
\* libraries loaded / instances created by the operation
LoadedHere == {calls[i].h : i \in {j \in At("ModuleLoader_Load") : calls[j].ok}}
CreatedHere == {calls[i].h : i \in {j \in At("Module_Create") : calls[j].ok}}
\* whether the registry s holds a record of module handle m, and the first such
HasRecord(s, m) == \E i \in 1..Len(s) : s[i].module = m
FirstRecord(s, m) == CHOOSE i \in 1..Len(s) :
    s[i].module = m /\ \A j \in 1..(i - 1) : s[j].module # m
Without(s, i) == [k \in 1..(Len(s) - 1) |-> IF k < i THEN s[k] ELSE s[k + 1]]

Done(o) == op = o /\ pc = "idle"

\* Once called, a function of the gateway runs on: gateway_destroy_internal and
\* the gateway_removemodule_internal it calls are straight-line code and a loop,
\* and every collaborator they call returns.
LiveSpec ==
    Spec /\ WF_vars(gateway_destroy_internal \/ gateway_removemodule_internal)

(***************************************************************************)
(* The claims.                                                             *)
(***************************************************************************)

\* C1: whenever no public operation is in progress on a gateway that create
\* returned (after any completed create, add_module and remove_module calls,
\* whichever of their steps failed), the bus reference count equals its
\* baseline plus the number of records in the registry.
C1_RefcountIsBaselinePlusRecords ==
    (pc = "idle" /\ gw = "live") => refcount = Baseline + Len(modules)

\* C1 witness: a remove_module whose unlink failed has completed and left a
\* record behind.
C1_Witness ==
    /\ Done("remove") /\ gw = "live"
    /\ Len(modules) = 1 /\ Len(pre.modules) = 2
    /\ \E i \in At("MessageBus_RemoveModule") : ~calls[i].ok

\* C3: a failed add_module (NULL gateway, NULL entry, NULL path, or a failed
\* load, module create, bus link or registry append) returns NULL with the
\* registry and the reference count as they were when it was called, and with
\* every library it loaded unloaded and every instance it created destroyed;
\* the same holds of gateway_addmodule_internal failing inside create.
C3_FailedAddIsAtomic ==
    /\ (Done("add") /\ result = NULL) =>
          /\ modules = pre.modules
          /\ refcount = pre.refcount
          /\ loaded = pre.loaded
          /\ alive = pre.alive
          /\ \A l \in LoadedHere : AtH("ModuleLoader_Unload", l) # {}
          /\ \A h \in CreatedHere : AtH("Module_Destroy", h) # {}
    /\ (Done("add") /\ FailedAdds # {}) => result = NULL
    /\ (op = "create" /\ pc = "c_next" /\ mres = NULL) =>
          /\ Len(modules) = idx
          /\ refcount = Baseline + idx
          /\ Cardinality(loaded) = idx
          /\ Cardinality(alive) = idx

\* C3 witness: an add_module failed at the registry append and the unlink of
\* its rollback failed as well.
C3_Witness ==
    /\ Done("add") /\ result = NULL
    /\ \E i \in At("VECTOR_push_back") : ~calls[i].ok
    /\ \E i \in At("MessageBus_RemoveModule") : ~calls[i].ok
    /\ Len(modules) = 1

\* C4: a successful add_module on a live gateway makes the registry one record
\* longer and the reference count one higher, appends the record {name,
\* library, instance} at the end with the earlier records unchanged and in
\* their order, and returns the handle of the instance it created and linked.
C4_SuccessfulAdd ==
    (Done("add") /\ result # NULL) =>
        /\ Len(modules) = Len(pre.modules) + 1
        /\ refcount = pre.refcount + 1
        /\ SubSeq(modules, 1, Len(pre.modules)) = pre.modules
        /\ \E l \in LoadedHere, h \in CreatedHere :
              /\ modules[Len(modules)] =
                    [module_name |-> arg.entry.module_name,
                     module_library_handle |-> l, module |-> h]
              /\ result = h
              /\ \E i \in AtH("MessageBus_AddModule", h) : calls[i].ok
              /\ h \in linked /\ h \in alive /\ l \in loaded
              /\ h \notin pre.alive /\ l \notin pre.loaded

\* C4 witness: a module was added behind an existing record, under handles that
\* differ from each other.
C4_Witness ==
    /\ Done("add") /\ result # NULL
    /\ Len(modules) = 2
    /\ modules[2].module # modules[2].module_library_handle

\* C5: remove_module on a module that has a record always completes: the
\* (first) matching record is erased and the others keep their order, the
\* reference count goes down by exactly 1, the instance is destroyed and its
\* library unloaded, also when the bus unlink reports failure.
C5_RemoveExisting ==
    (Done("remove") /\ arg.gw # NULL /\ HasRecord(pre.modules, arg.module)) =>
        LET i == FirstRecord(pre.modules, arg.module) IN
        /\ modules = Without(pre.modules, i)
        /\ Len(modules) = Len(pre.modules) - 1
        /\ refcount = pre.refcount - 1
        /\ alive = pre.alive \ {arg.module}
        /\ loaded = pre.loaded \ {pre.modules[i].module_library_handle}
        /\ AtH("MessageBus_RemoveModule", arg.module) # {}

\* C5 witness: the second of two records was removed and the unlink failed.
C5_Witness ==
    /\ Done("remove") /\ arg.gw # NULL
    /\ Len(pre.modules) = 2
    /\ pre.modules[2].module = arg.module
    /\ \E i \in At("MessageBus_RemoveModule") : ~calls[i].ok
    /\ arg.module \in linked

\* C6: remove_module with a module reference that matches no record (NULL, a
\* handle never added, or one already removed) changes nothing and calls
\* nothing: no unlink, decrement, destroy, unload, erase or event.
C6_RemoveUnknown ==
    (Done("remove") /\ arg.gw # NULL /\ ~HasRecord(pre.modules, arg.module)) =>
        /\ modules = pre.modules
        /\ refcount = pre.refcount
        /\ linked = pre.linked
        /\ loaded = pre.loaded
        /\ alive = pre.alive
        /\ events = pre.events
        /\ calls = <<>>

\* C6 witness: the reference is one whose record an earlier removal erased (its
\* unlink had failed, so the bus still lists it), while another module whose
\* library handle has the same value is registered.
C6_Witness ==
    /\ Done("remove") /\ arg.gw # NULL
    /\ ~HasRecord(pre.modules, arg.module)
    /\ arg.module \in linked /\ arg.module \notin alive
    /\ \E i \in 1..Len(modules) : modules[i].module_library_handle = arg.module

\* the first failed return of gateway_addmodule_internal
FirstFailedAdd == CHOOSE i \in FailedAdds : \A j \in FailedAdds : i <= j
\* the handles VECTOR_erase was called on, in call order
Erased == SelectSeq(calls, LAMBDA c : c.f = "VECTOR_erase")
\* the teardown of module h by the removal protocol: an unlink was made, and
\* the module is still listed on the bus exactly if that unlink failed
TornDown(h, from) ==
    /\ \E u \in AtH("MessageBus_RemoveModule", h) :
          u > from /\ (h \in linked <=> ~calls[u].ok)
    /\ \E d \in AtH("Module_Destroy", h) : d > from
    /\ h \notin alive

\* create failed because adding some entry k failed
C2_Case == Done("create") /\ FailedAdds # {}

\* what C2 and its amendment share: failure is returned, nothing after entry k
\* is loaded, the instances of entries 0..k-1 are destroyed and their libraries
\* unloaded, the count is back at baseline, the bus was destroyed exactly once
\* and no event was reported
C2_Rest ==
    /\ result = NULL /\ gw = "gone"
    /\ \A i \in At("ModuleLoader_Load") : i < FirstFailedAdd
    /\ AddReturns = (AddReturns \ FailedAdds) \cup {FirstFailedAdd}
    /\ \A j \in AddReturns : j <= FirstFailedAdd
    /\ alive = {} /\ loaded = {} /\ modules = <<>>
    /\ Len(Erased) = Cardinality(AddedHandles)
    /\ refcount = Baseline
    /\ busDestroyed = 1 /\ Cardinality(At("MessageBus_Destroy")) = 1
    /\ events = <<>>

\* C2 (as amended): if adding entry k of the descriptor list fails, create
\* returns failure, no entry after k is ever loaded, for every entry 0..k-1
\* that was added an unlink from the bus has been made (the module stays
\* listed on the bus only if that unlink reported failure), its instance is
\* destroyed and its library unloaded, the reference count is back at
\* baseline, the bus has been destroyed exactly once and no event was reported.
C2_CreateAllOrNothing ==
    C2_Case =>
        /\ C2_Rest
        /\ \A h \in AddedHandles : TornDown(h, FirstFailedAdd)

\* C2 as stated: ... every entry 0..k-1 that was added has been unlinked from
\* the bus ...
C2_Original ==
    C2_Case =>
        /\ C2_Rest
        /\ AddedHandles \cap linked = {}

\* C2 witness: the second of two entries failed, and the teardown of the first
\* met a failing unlink.
C2_Witness ==
    /\ C2_Case
    /\ Cardinality(AddedHandles) = 1
    /\ \E h \in AddedHandles :
          \E u \in AtH("MessageBus_RemoveModule", h) : ~calls[u].ok

\* C7: destroy on a live gateway holding M modules reports DESTROYED exactly
\* once and before any module is unlinked, destroyed or unloaded, then removes
\* all M records (front first) so that the registry ends empty, and destroys
\* the bus exactly once, after the last module has been removed.
C7_Destroy ==
    (Done("destroy") /\ arg.gw # NULL) =>
        /\ events = Append(pre.events, "GATEWAY_DESTROYED")
        /\ Cardinality({i \in DOMAIN events : events[i] = "GATEWAY_DESTROYED"}) = 1
        /\ calls[1] = Call("Report_GATEWAY_DESTROYED", NULL, TRUE)
        /\ At("Report_GATEWAY_DESTROYED") = {1}
        /\ modules = <<>>
        /\ Len(Erased) = Len(pre.modules)
        /\ \A i \in 1..Len(pre.modules) :
              /\ Erased[i].h = pre.modules[i].module
              /\ TornDown(pre.modules[i].module, 1)
        /\ loaded = {}
        /\ Cardinality(At("MessageBus_Destroy")) = 1
        /\ \A b \in At("MessageBus_Destroy") : \A e \in At("VECTOR_erase") : e < b
        /\ busDestroyed = 1 /\ bus = "destroyed"

\* C7 witness: a gateway with two modules was destroyed, one unlink failing.
C7_Witness ==
    /\ Done("destroy") /\ arg.gw # NULL
    /\ Len(pre.modules) = 2
    /\ \E i \in At("MessageBus_RemoveModule") : ~calls[i].ok
    /\ \E i \in At("MessageBus_RemoveModule") : calls[i].ok

\* C8: for every create that succeeds, CREATED is reported exactly once and
\* MODULE_LIST_CHANGED exactly once, CREATED first, and both only after every
\* descriptor of the list has been added and the event system initialized.
C8_CreatedThenListChanged ==
    /\ (Done("create") /\ result # NULL) =>
          /\ events = <<"GATEWAY_CREATED", "GATEWAY_MODULE_LIST_CHANGED">>
          /\ Len(calls) >= 3
          /\ calls[Len(calls) - 2] = Call("EventSystem_Init", NULL, TRUE)
          /\ calls[Len(calls) - 1] = Call("Report_GATEWAY_CREATED", NULL, TRUE)
          /\ calls[Len(calls)] = Call("Report_GATEWAY_MODULE_LIST_CHANGED", NULL, TRUE)
          /\ FailedAdds = {}
          /\ Cardinality(AddReturns) = Len(arg.entries)
    /\ (op = "create" /\ events # <<>>) =>
          /\ events[1] = "GATEWAY_CREATED"
          /\ event_system = "live"
          /\ Len(modules) = Len(arg.entries)
          /\ Len(events) = 1 \/ pc = "idle"

\* C8 witness: a create of two modules has returned a handle.
C8_Witness ==
    /\ Done("create") /\ result # NULL
    /\ Len(arg.entries) = 2

\* C9: for a descriptor list of N >= 0 entries that all load, instantiate and
\* link (no step of the construction failing), create returns a valid handle;
\* the registry of a returned handle has exactly N records in the order of the
\* list and the reference count is baseline + N (an empty registry and the
\* baseline for the empty list).
C9_CreateAllValid ==
    /\ (Done("create") /\ ~SomeCallFailed
          /\ \A i \in 1..Len(arg.entries) : arg.entries[i].module_path # NULL)
       => result = GW
    /\ (Done("create") /\ result # NULL) =>
          /\ result = GW /\ gw = "live"
          /\ Len(modules) = Len(arg.entries)
          /\ \A i \in 1..Len(modules) :
                /\ modules[i].module_name = arg.entries[i].module_name
                /\ modules[i].module \in linked \cap alive
                /\ modules[i].module_library_handle \in loaded
          /\ refcount = Baseline + Len(arg.entries)

\* C9 witness: a list of two entries with different names was created.
C9_Witness ==
    /\ Done("create") /\ result = GW
    /\ Len(arg.entries) = 2
    /\ arg.entries[1].module_name # arg.entries[2].module_name
    /\ ~SomeCallFailed

\* every descriptor was added but EventSystem_Init failed
C10_Case == Done("create") /\ \E i \in At("EventSystem_Init") : ~calls[i].ok

\* what C10 and its amendment share
C10_Rest ==
    /\ result = NULL /\ gw = "gone"
    /\ FailedAdds = {}
    /\ Cardinality(AddedHandles) = Len(arg.entries)
    /\ Len(Erased) = Len(arg.entries)
    /\ modules = <<>> /\ alive = {} /\ loaded = {}
    /\ refcount = Baseline
    /\ busDestroyed = 1 /\ Cardinality(At("MessageBus_Destroy")) = 1
    /\ events = <<>>
    /\ \A i \in DOMAIN calls :
          calls[i].f \in {"Report_GATEWAY_CREATED", "Report_GATEWAY_DESTROYED",
                          "Report_GATEWAY_MODULE_LIST_CHANGED"} => ~calls[i].ok

\* C10 (as amended): if every descriptor was added but event-system
\* initialization fails, create returns failure, the assembled gateway is torn
\* down (for every added module an unlink is made, which leaves it listed on
\* the bus only if that unlink reports failure; it is destroyed, unloaded and
\* erased; the bus is destroyed exactly once) and no event of any kind is
\* reported.
C10_EventSystemInitFails ==
    C10_Case =>
        /\ C10_Rest
        /\ \A h \in AddedHandles :
              \E i \in At("EventSystem_Init") : TornDown(h, i)

\* C10 as stated: ... every added module unlinked ...
C10_Original ==
    C10_Case =>
        /\ C10_Rest
        /\ AddedHandles \cap linked = {}

\* C10 witness: two modules were added, EventSystem_Init failed, and one of
\* the unlinks of the teardown failed.
C10_Witness ==
    /\ C10_Case
    /\ Len(arg.entries) = 2
    /\ \E i \in At("MessageBus_RemoveModule") : ~calls[i].ok

\* gateway_addmodule_internal is at work on module handle h (created, and not
\* yet registered or rolled back)
InAdd(h) ==
    /\ h # NULL /\ h = mh
    /\ pc \in {"a_link", "a_incref", "a_push", "a_decref", "a_unlink", "a_fin", "a_unload"}

\* the module handles the records of registry s hold
RecordHandles(s) == {s[i].module : i \in 1..Len(s)}

\* C11 (as amended): a module is removed from the registry while it is still
\* linked to the bus only when the unlink made for it reported failure: in
\* every reachable state a linked module instance has a record in the
\* registry, or is the one an add_module in progress is handling, or is one
\* whose last unlink reported failure (remove_module, destroy and the
\* add_module rollback log that failure and go on).
C11_LinkedHasRecordOrUnlinkFailed ==
    /\ \A h \in linked : HasRecord(modules, h) \/ InAdd(h) \/ h \in stale
    /\ pc = "r_erase" =>
          (modules[rm].module \in linked =>
              \E u \in AtH("MessageBus_RemoveModule", modules[rm].module) : ~calls[u].ok)
    /\ (pc = "idle" /\ op \in {"remove", "destroy"}) =>
          \A i \in 1..Len(Erased) :
              Erased[i].h \in linked =>
                  \E u \in AtH("MessageBus_RemoveModule", Erased[i].h) : ~calls[u].ok

\* C11 as stated: a record is never erased while its module is still linked;
\* after remove_module or destroy erases a record, that module is no longer
\* linked.
C11_Original ==
    /\ pc = "r_erase" => modules[rm].module \notin linked
    /\ (pc = "idle" /\ op \in {"remove", "destroy"}) =>
          \A i \in 1..Len(Erased) : Erased[i].h \notin linked

\* C11 witness: destroy erased the records of two modules, the unlink of one
\* of them failed, and that one is still listed on the bus.
C11_Witness ==
    /\ Done("destroy")
    /\ Len(Erased) = 2
    /\ Cardinality(linked \cap {Erased[1].h, Erased[2].h}) = 1

\* C12 (as amended): every module instance linked on the bus has been created
\* and not yet destroyed, except one whose unlink reported failure: after a
\* failed unlink remove_module, destroy and the add_module rollback destroy
\* the instance all the same and the bus keeps listing it.
C12_LinkedIsAliveOrUnlinkFailed ==
    /\ linked \subseteq alive \cup stale
    /\ stale \subseteq linked

\* C12 as stated: every module instance linked on the bus is one that has been
\* created and not yet destroyed, also after a failed unlink.
C12_Original ==
    linked \subseteq alive

\* C12 witness: the rollback of an add_module met a failing unlink and the
\* instance, destroyed, is still listed on the bus.
C12_Witness ==
    /\ Done("add") /\ result = NULL
    /\ \E i \in At("MessageBus_RemoveModule") :
          ~calls[i].ok /\ calls[i].h \in linked /\ calls[i].h \notin alive

\* the library handles the records of registry s hold
RecordLibraries(s) == {s[i].module_library_handle : i \in 1..Len(s)}

\* C14: every module instance is destroyed exactly once, through the library
\* that created it and before that library is unloaded, and every library is
\* unloaded exactly once: the instances alive are those created and not yet
\* destroyed through their own library, whose library is still loaded; a
\* destroy is only ever made on an instance alive and an unload on a library
\* loaded; between operations the instances alive and the libraries loaded are
\* exactly those of the records; and after destroy(handle) or a failed create
\* no instance is alive and no library is loaded.
C14_InstancesAndLibraries ==
    /\ {p[2] : p \in made} = alive
    /\ \A p \in made : p[1] \in loaded
    /\ \A p, q \in made : p[2] = q[2] => p = q
    /\ (pc = "a_fin" /\ mres = NULL) => (<<lib, mh>> \in made /\ lib \in loaded)
    /\ pc = "a_unload_cf" => lib \in loaded
    /\ pc = "a_unload" => (lib \in loaded /\ mh \notin alive)
    /\ pc = "r_destroy" =>
          <<modules[rm].module_library_handle, modules[rm].module>> \in made
    /\ pc = "r_unload" =>
          /\ modules[rm].module_library_handle \in loaded
          /\ modules[rm].module \notin alive
    /\ pc = "idle" =>
          /\ alive = RecordHandles(modules)
          /\ loaded = RecordLibraries(modules)
          /\ Cardinality(loaded) = Len(modules)
    /\ \A h \in ModHandles : Cardinality(AtH("Module_Destroy", h)) <= 1
    /\ \A l \in LibHandles : Cardinality(AtH("ModuleLoader_Unload", l)) <= 1
    /\ ((Done("destroy") /\ arg.gw # NULL) \/ (Done("create") /\ result = NULL)) =>
          /\ alive = {} /\ loaded = {} /\ made = {}
          /\ \A h \in CreatedHere : AtH("Module_Destroy", h) # {}
          /\ \A l \in LoadedHere : AtH("ModuleLoader_Unload", l) # {}

\* C14 witness: a create failed at the creation of its second instance, after
\* the first was created and registered; both libraries were unloaded and the
\* first instance destroyed.
C14_Witness ==
    /\ Done("create") /\ result = NULL
    /\ Cardinality(LoadedHere) = 2
    /\ Cardinality(CreatedHere) = 1
    /\ \E i \in At("Module_Create") : ~calls[i].ok

\* C15: no two records of the registry hold the same module handle, so the
\* handle given to remove_module identifies at most one record.
C15_HandlesAreUnique ==
    /\ \A i, j \in 1..Len(modules) :
          modules[i].module = modules[j].module => i = j
    /\ \A m \in ModHandles :
          Cardinality({i \in 1..Len(modules) : module_data_find(modules[i], m)}) <= 1

\* C15 witness: two modules are registered, the second of them added after the
\* gateway was created.
C15_Witness ==
    /\ Done("add") /\ result # NULL
    /\ Len(modules) = 2

\* the calls of the last run of gateway_addmodule_internal, its return included
AddSegment ==
    LET n == Len(calls)
        before == {i \in 1..(n - 1) :
                      calls[i].f \in {"gateway_addmodule_internal", "VECTOR_create"}}
        s == IF before = {} THEN 0 ELSE CHOOSE i \in before : \A j \in before : j <= i
    IN  SubSeq(calls, s + 1, n)

\* gateway_addmodule_internal has just returned
AddJustReturned ==
    /\ \/ pc = "c_next"
       \/ Done("add") /\ arg.gw # NULL /\ ~arg.null
    /\ calls # <<>>
    /\ calls[Len(calls)].f = "gateway_addmodule_internal"

\* the names of the calls of trace t
CallNames(t) == [i \in DOMAIN t |-> t[i].f]

\* C17: the rollback of a failed add unwinds, in reverse order, exactly the
\* steps that succeeded: a failed load is followed by nothing, a failed create
\* by the unload only, a failed link by destroy then unload (no unlink, no
\* decrement), a failed append by decrement, unlink, destroy, unload; a failed
\* unlink in the rollback stops neither the destroy nor the unload and the
\* result stays failure; a successful add undoes nothing.
C17_RollbackInReverseOrder ==
    AddJustReturned =>
        LET t == AddSegment
            f == CallNames(t)
        IN  IF t[Len(t)].ok
            THEN /\ f = <<"ModuleLoader_Load", "Module_Create", "MessageBus_AddModule",
                          "MessageBus_IncRef", "VECTOR_push_back",
                          "gateway_addmodule_internal">>
                 /\ \A i \in 1..Len(t) : t[i].ok
            ELSE \/ f = <<"gateway_addmodule_internal">>
                 \/ /\ f = <<"ModuleLoader_Load", "gateway_addmodule_internal">>
                    /\ ~t[1].ok
                 \/ /\ f = <<"ModuleLoader_Load", "Module_Create", "ModuleLoader_Unload",
                             "gateway_addmodule_internal">>
                    /\ t[1].ok /\ ~t[2].ok
                    /\ t[3].h = t[1].h
                 \/ /\ f = <<"ModuleLoader_Load", "Module_Create", "MessageBus_AddModule",
                             "Module_Destroy", "ModuleLoader_Unload",
                             "gateway_addmodule_internal">>
                    /\ t[1].ok /\ t[2].ok /\ ~t[3].ok
                    /\ t[4].h = t[2].h /\ t[5].h = t[1].h
                 \/ /\ f = <<"ModuleLoader_Load", "Module_Create", "MessageBus_AddModule",
                             "MessageBus_IncRef", "VECTOR_push_back", "MessageBus_DecRef",
                             "MessageBus_RemoveModule", "Module_Destroy",
                             "ModuleLoader_Unload", "gateway_addmodule_internal">>
                    /\ t[1].ok /\ t[2].ok /\ t[3].ok /\ ~t[5].ok
                    /\ t[7].h = t[2].h /\ t[8].h = t[2].h /\ t[9].h = t[1].h

\* C17 witness: an add_module failed at the append and the unlink of its
\* rollback failed too; the destroy and the unload followed all the same.
C17_Witness ==
    /\ Done("add") /\ result = NULL
    /\ Len(calls) = 10
    /\ calls[7].f = "MessageBus_RemoveModule" /\ ~calls[7].ok
    /\ calls[9].f = "ModuleLoader_Unload"

\* C20: the gateway destroys its bus only when the reference count is at
\* baseline and the registry is empty: where MessageBus_Destroy is the next
\* call (in gateway_destroy_internal, reached from destroy and from a create
\* that failed at an add or at the event system, and in Gateway_LL_Create when
\* the registry cannot be created), and ever after the bus is destroyed.
C20_BusDestroyedAtBaseline ==
    /\ pc \in {"d_bus", "c_vec"} => (refcount = Baseline /\ modules = <<>>)
    /\ (bus = "destroyed" \/ busDestroyed > 0) =>
          (refcount = Baseline /\ modules = <<>> /\ busDestroyed = 1)

\* C20 witness: destroy is about to destroy the bus of a gateway that held two
\* modules.
C20_Witness ==
    /\ pc = "d_bus" /\ op = "destroy"
    /\ Len(pre.modules) = 2
    /\ pre.refcount = Baseline + 2

\* the module handles of the records of registry s, in order
HandlesOf(s) == [i \in 1..Len(s) |-> s[i].module]

\* the module handles VECTOR_erase was called on, in call order
ErasedHandles == [i \in 1..Len(Erased) |-> Erased[i].h]

\* the registry as gateway_destroy_internal found it: that of the gateway
\* given to destroy, or what the adds of the failing create registered
DrainStart ==
    IF op = "destroy"
    THEN HandlesOf(pre.modules)
    ELSE LET added == SelectSeq(calls,
                 LAMBDA c : c.f = "gateway_addmodule_internal" /\ c.ok)
         IN  [i \in 1..Len(added) |-> added[i].h]

\* the drain of gateway_destroy_internal erases the records from the front, in
\* registry order and each once; the registry is destroyed after the last
\* erase, the bus after the registry and the shell is released last
C18_Drain ==
    /\ (op \in {"destroy", "create"} /\ pc \in {"d_loop", "d_vec", "d_bus", "d_free"}) =>
          /\ ErasedHandles \o HandlesOf(modules) = DrainStart
          /\ pc # "d_loop" => modules = <<>>
    /\ (pc = "r_unlink" /\ op \in {"destroy", "create"}) => rm = 1
    /\ (pc = "idle" /\ op \in {"destroy", "create"}
           /\ At("Report_GATEWAY_DESTROYED") # {}) =>
          /\ gw = "gone"
          /\ ErasedHandles = DrainStart
          /\ modules = <<>>
          /\ \A e \in At("VECTOR_erase") : \A v \in At("VECTOR_destroy") : e < v
          /\ \A v \in At("VECTOR_destroy") : \A b \in At("MessageBus_Destroy") : v < b
          /\ \A b \in At("MessageBus_Destroy") : \A r \in At("free") : b < r
          /\ Cardinality(At("VECTOR_destroy")) = 1
          /\ Cardinality(At("MessageBus_Destroy")) = 1
          /\ Cardinality(At("free")) = 1

\* C18: destroy always runs to completion: once gateway_destroy_internal is
\* entered the drain of the registry terminates, whatever the unlinks report,
\* having removed the records in registry order from the front, each once,
\* and the bus is destroyed and the shell released after the last record is
\* gone.
C18_DestroyCompletes ==
    /\ []C18_Drain
    /\ (pc = "d_report") ~>
          (pc = "idle" /\ gw = "gone" /\ bus = "destroyed" /\ vec = "destroyed"
              /\ modules = <<>>)

\* C18 witness: destroy of a gateway of two modules is done; the unlink of the
\* first record failed and both records were erased, front first.
C18_Witness ==
    /\ Done("destroy") /\ gw = "gone"
    /\ Len(pre.modules) = 2
    /\ ErasedHandles = HandlesOf(pre.modules)
    /\ \E u \in AtH("MessageBus_RemoveModule", pre.modules[1].module) : ~calls[u].ok

\* the state of the gateway and of what it holds on to
GatewayState ==
    <<gw, bus, busDestroyed, refcount, vec, modules, event_system, events,
      linked, loaded, alive, callbacks>>

\* what C13 says of the state a call of get_module_list ends in
C13_AtReturn ==
    /\ (op = "list" /\ pc = "idle") => Snapshot = pre
    /\ (Done("list") /\ result # NULL) =>
          /\ arg.gw # NULL
          /\ list.returned
          /\ Len(ListContents) = Len(pre.modules)
          /\ \A i \in 1..Len(pre.modules) : ListContents[i] = pre.modules[i].module_name
          /\ Len(modules) = Len(pre.modules)

\* C13: get_module_list returns an independent snapshot: the vector holds the
\* names of the modules of the registry, in registry order, as they were at
\* the call; the call changes nothing of the gateway; and whatever add_module,
\* remove_module or destroy do afterwards, the vector reads the same.
C13_ListIsSnapshot ==
    /\ []C13_AtReturn
    /\ [][(pc = "idle" /\ op' = "list") => UNCHANGED GatewayState]_vars
    /\ [][(list.returned /\ ~(pc = "idle" /\ op' = "list")) =>
             ListContents' = ListContents]_vars

\* C13 witness: a list taken of two modules of different names is still held,
\* both names in it, after the gateway was destroyed.
C13_Witness ==
    /\ list.returned
    /\ Len(ListContents) = 2
    /\ ListContents[1] # ListContents[2]
    /\ Done("destroy") /\ gw = "gone" /\ modules = <<>>

\* what C16 says of the state a call with a NULL gateway handle ends in
C16_AtReturn ==
    (pc = "idle" /\ op \in {"list", "add", "remove", "destroy", "callback"}
        /\ arg.gw = NULL) =>
        /\ Snapshot = pre
        /\ calls = <<>>
        /\ result = NULL

\* C16: every public operation is a no-op on a NULL gateway handle:
\* get_module_list and add_module return failure having called nothing (no
\* allocation, no load), remove_module, destroy and register_event_callback
\* return, and none of them changes the gateway, the bus, the registry, the
\* callbacks registered or the events reported.
C16_NullHandleIsNoOp ==
    /\ []C16_AtReturn
    /\ [][(/\ pc = "idle"
           /\ op' \in {"list", "add", "remove", "destroy", "callback"}
           /\ arg'.gw = NULL) =>
             /\ pc' = "idle"
             /\ calls' = <<>>
             /\ result' = NULL
             /\ UNCHANGED GatewayState
             /\ UNCHANGED <<list, stale, made>>]_vars

\* C16 witness: register_event_callback was called with a NULL handle while a
\* gateway with a module and a registered callback is live.
C16_Witness ==
    /\ Done("callback") /\ arg.gw = NULL
    /\ gw = "live" /\ Len(modules) >= 1 /\ callbacks # <<>>

\* C19 as stated: in Gateway_LL_UwpCreate the modules of the list are linked
\* in list order, each successful link is followed by one increment of the
\* reference count, and at the first link failure the call stops and returns
\* failure: after a failed MessageBus_AddModule there is no further link, no
\* increment and no access to the released shell, and the program does not
\* stop in the access.
C19_Original ==
    op = "uwp_create" =>
        LET links == SelectSeq(calls, LAMBDA c : c.f = "MessageBus_AddModule")
        IN  /\ \A k \in 1..Len(links) : links[k].h = arg.modules[k]
            /\ pc = "u_loop" =>
                  refcount = Baseline + Cardinality({k \in 1..Len(links) : links[k].ok})
            /\ \A i \in At("MessageBus_AddModule") :
                  ~calls[i].ok =>
                      \A j \in (i + 1)..Len(calls) : calls[j].f = "free" /\ j = i + 1
            /\ pc # "crashed"
            /\ At("gateway->modules") = {}
            /\ (pc = "idle" /\ \E i \in At("MessageBus_AddModule") : ~calls[i].ok) =>
                  result = NULL

\* C21: in every reachable state in which the bus exists, the states inside
\* add_module, remove_module and destroy included, the reference count of the
\* bus is not below its baseline and differs from baseline + the number of
\* records by at most 1: it is one above between the increment and the append
\* of an add (or the decrement of its rollback), one below between the
\* decrement and the erase of a removal, and equal everywhere else.
C21_RefcountWithinOne ==
    bus = "live" =>
        /\ refcount >= Baseline
        /\ refcount - (Baseline + Len(modules)) \in {-1, 0, 1}
        /\ refcount = Baseline + Len(modules) + 1 <=> pc \in {"a_push", "a_decref"}
        /\ refcount = Baseline + Len(modules) - 1 <=>
              pc \in {"r_destroy", "r_unload", "r_erase"}

\* C21 witness: the gateway holds one record and an add_module has incremented
\* the count and not yet appended its record.
C21_Witness ==
    /\ op = "add" /\ pc = "a_push"
    /\ Len(modules) = 1
    /\ refcount = Baseline + 2

\* the events of the lifetime of a gateway, in order
Lifetime == <<"GATEWAY_CREATED", "GATEWAY_MODULE_LIST_CHANGED", "GATEWAY_DESTROYED">>

\* sequence s is a prefix of sequence t
IsPrefix(s, t) == Len(s) <= Len(t) /\ s = SubSeq(t, 1, Len(s))

\* the calls that report an event
Reports ==
    At("Report_GATEWAY_CREATED") \cup At("Report_GATEWAY_MODULE_LIST_CHANGED")
        \cup At("Report_GATEWAY_DESTROYED")

\* what C22 says of every state
C22_Events ==
    /\ IsPrefix(events, Lifetime)
    /\ (gw = "live" /\ ~(op = "destroy" /\ pc # "idle")) =>
          events = SubSeq(Lifetime, 1, 2)
    /\ (op = "create" /\ gw = "gone") => events = <<>>
    /\ op \in {"add", "remove"} => (events = pre.events /\ Reports = {})
    /\ (op = "destroy" /\ arg.gw # NULL /\ pc # "d_report") =>
          /\ events = Lifetime
          /\ pre.events = SubSeq(Lifetime, 1, 2)
          /\ Cardinality(Reports) = 1
          /\ \A r \in Reports : r = 1 /\ calls[r].ok
    /\ pc \in {"d_loop", "r_unlink", "r_decref", "r_destroy", "r_unload", "r_erase",
               "d_vec", "d_bus", "d_free"} =>
          (op \in {"create", "destroy"} => event_system = "null")
    /\ Len(events) = 3 => (event_system = "null" \/ pc = "d_esd")

\* C22: over the lifetime of a gateway built by Gateway_LL_Create the events
\* reported are GATEWAY_CREATED, GATEWAY_MODULE_LIST_CHANGED and, at destroy,
\* GATEWAY_DESTROYED, in that order and nothing else: add_module and
\* remove_module report no event, a create that fails reports none, and no
\* event follows GATEWAY_DESTROYED, the event system being destroyed before
\* the first record is drained.
C22_EventSequence ==
    /\ []C22_Events
    /\ [][IsPrefix(events, events')]_vars

\* C22 witness: a gateway that held two modules was destroyed: the three
\* events were reported, GATEWAY_DESTROYED before the first unlink.
C22_Witness ==
    /\ Done("destroy") /\ gw = "gone"
    /\ events = Lifetime
    /\ Len(Erased) = 2
    /\ calls[1].f = "Report_GATEWAY_DESTROYED"
    /\ calls[2].f = "EventSystem_Destroy"

====
